---- MODULE Spec2Model ----
(***************************************************************************)
(* Model of the sql-builder of ISCOUTB/etl-design: the Dependency          *)
(* Extractor (create_graph.py), the dependency graph and its ordering      *)
(* (utils.py, builder.py) and the DDL assembler (builder.py, main.py);     *)
(* and of its ddl-generator: Column Addressing (utils.py) and Expression   *)
(* Codegen (generator.py, sql.py, main.py).  Spec is the sql-builder,      *)
(* SpecGen the ddl-generator, SpecAddr the functions of Column Addressing  *)
(* applied on their own, SpecBoth the two programs side by side.           *)
(*                                                                         *)
(* Text is modelled as a sequence of tokens: concatenating two Python      *)
(* strings is \o on their token sequences.  An exception is modelled as a  *)
(* record with the single field "raised".                                  *)
(***************************************************************************)
EXTENDS Integers, Sequences, FiniteSets, TLC

VARIABLES cols, dtypes, table_name, pc, graph, priorities, sql_expressions, script,
          raised, data, output

vars == <<cols, dtypes, table_name, pc, graph, priorities, sql_expressions, script,
          raised, data, output>>

(***************************************************************************)
(* Bounds of the model.                                                    *)
(***************************************************************************)
\* number of base columns of the wide table, all referenced by one column
WideLen == 8
\* largest number of generated columns put around the wide table
MaxGenerated == 2
\* number of column letters A, B, ... a column mapping covers
MaxLetters == 5
\* largest number of letters of a column given to excel_col_to_index
MaxColumnLen == 2
\* largest index given to index_to_excel_col: the index of "ZZ"
MaxIndex == 702

None == "None"

ColNames == {"col1", "col2", "col3"}

Elems(f) == {f[x] : x \in DOMAIN f}

RECURSIVE SeqOfSet(_)
\* some list of the elements of a finite set (the order is irrelevant to
\* every use: the edges of the graph are counted, not ordered)
SeqOfSet(S) ==
    IF S = {} THEN <<>>
    ELSE LET x == CHOOSE y \in S : TRUE IN <<x>> \o SeqOfSet(S \ {x})

RECURSIVE SumSeq(_)
SumSeq(s) == IF s = <<>> THEN 0 ELSE Head(s) + SumSeq(Tail(s))

Raise(what) == [raised |-> what]

CyclicError == "ValueError: The dependency graph contains cyclic dependencies."
IsRaise(r) == "raised" \in DOMAIN r

(***************************************************************************)
(* SqlNode values (dtypes.py), with the sql text Expression Codegen gives  *)
(* each variant.                                                           *)
(***************************************************************************)
CellMapsOutput(column) ==
    [type |-> "cell", column |-> column, error |-> None, sql |-> <<column>>]

\* the Cell node of an unmapped column letter: column = sql = "", error set
CellMapsOutputError ==
    [type |-> "cell", column |-> "", error |-> "KeyError('Z')", sql |-> <<"">>]

NumberMapsOutput(v) == [type |-> "number", sql |-> <<v>>]

LogicalMapsOutput(v) == [type |-> "logical", sql |-> <<v>>]

TextMapsOutput(v) == [type |-> "text", sql |-> <<"'", v, "'">>]

\* tag is "cell-range" as Expression Codegen writes it, or "cell_range" as
\* the Dependency Extractor expects it
CellRangeMapsOutput(tag, columns, error) ==
    [type |-> tag, columns |-> columns, error |-> error]

BinaryExpressionMapsOutput(operator, left, right) ==
    [type |-> "binary-expression", operator |-> operator,
     left |-> left, right |-> right,
     sql |-> <<"(">> \o left.sql \o <<") ", operator, " (">> \o right.sql \o <<")">>]

FunctionMapsOutput(name, arguments, sql) ==
    [type |-> "function", name |-> name, arguments |-> arguments, sql |-> sql]

(***************************************************************************)
(* Dependency Extractor (create_graph.py).                                 *)
(***************************************************************************)
ColReferences(columns, error, constants) ==
    [columns |-> columns, error |-> error, constants |-> constants]

search_columns_cell(source_col) ==
    IF source_col.type # "cell"
    THEN ColReferences(<<>>, "Invalid cell mapping type", FALSE)
    ELSE ColReferences(<<source_col.column>>, None, FALSE)

search_columns_cell_range(source_col) ==
    IF source_col.type # "cell_range"
    THEN ColReferences(<<>>, "Invalid cell range mapping type", FALSE)
    ELSE ColReferences(source_col.columns, None, FALSE)

search_columns_constants(source_col) ==
    IF source_col.type \notin {"logical", "text", "number"}
    THEN ColReferences(<<>>, "Invalid logical mapping type", FALSE)
    ELSE ColReferences(<<>>, None, TRUE)

RECURSIVE MAPS_DTYPES(_)

RECURSIVE ExtendArguments(_, _)
\* the loop of search_columns_function: cols.extend(...) per argument; the
\* first argument whose dispatch raises ends the loop with that exception
ExtendArguments(arguments, acc) ==
    IF arguments = <<>> THEN [columns |-> acc]
    ELSE LET r == MAPS_DTYPES(Head(arguments)) IN
         IF IsRaise(r) THEN r
         ELSE ExtendArguments(Tail(arguments), acc \o r.columns)

search_columns_function(source_col) ==
    IF source_col.type # "function"
    THEN ColReferences(<<>>, "Invalid function mapping type", FALSE)
    ELSE LET c == ExtendArguments(source_col.arguments, <<>>) IN
         IF IsRaise(c) THEN c
         ELSE ColReferences(SeqOfSet(Elems(c.columns)), None, FALSE)

search_columns_binary_expression(source_col) ==
    IF source_col.type # "binary-expression"
    THEN ColReferences(<<>>, "Invalid binary expression mapping type", FALSE)
    ELSE LET cols_left == MAPS_DTYPES(source_col.left) IN
         IF IsRaise(cols_left) THEN cols_left
         ELSE LET cols_right == MAPS_DTYPES(source_col.right) IN
              IF IsRaise(cols_right) THEN cols_right
              ELSE ColReferences(
                       SeqOfSet(Elems(cols_left.columns) \cup Elems(cols_right.columns)),
                       None, FALSE)

\* the dispatch table: a tag that is no key of it raises KeyError
MAPS_DTYPES(x) ==
    CASE x.type = "cell" -> search_columns_cell(x)
      [] x.type = "cell_range" -> search_columns_cell_range(x)
      [] x.type \in {"logical", "text", "number"} -> search_columns_constants(x)
      [] x.type = "function" -> search_columns_function(x)
      [] x.type = "binary-expression" -> search_columns_binary_expression(x)
      [] OTHER -> Raise("KeyError: no such tag")

(***************************************************************************)
(* The igraph Graph used by create_graph.py: vs is the list of vertex      *)
(* names, es the list of directed edges <<source, target>> (parallel edges *)
(* are kept, as igraph keeps them).                                        *)
(***************************************************************************)
Graph(names) == [vs |-> names, es |-> <<>>]

\* Graph.add_edge by vertex name: a name that is no vertex raises ValueError
add_edge(g, source, target) ==
    IF source \in Elems(g.vs) /\ target \in Elems(g.vs)
    THEN [g EXCEPT !.es = Append(@, <<source, target>>)]
    ELSE Raise("ValueError: no such vertex")

RECURSIVE AddEdges(_, _, _)
\* for col_ref in cols_refs["columns"]: g.add_edge(col_name, col_ref)
AddEdges(g, col_name, columns) ==
    IF columns = <<>> THEN g
    ELSE LET g2 == add_edge(g, col_name, Head(columns)) IN
         IF IsRaise(g2) THEN g2
         ELSE AddEdges(g2, col_name, Tail(columns))

\* Python truth value of cols_refs["error"]
Truthy(error) == error # None /\ error # ""

\* one iteration of the loop of create_dependency_graph
GraphStep(g, col_name, col) ==
    LET cols_refs == MAPS_DTYPES(col) IN
    IF IsRaise(cols_refs) THEN cols_refs
    ELSE IF Truthy(cols_refs.error) \/ cols_refs.constants THEN g
    ELSE AddEdges(g, col_name, cols_refs.columns)

RECURSIVE GraphLoopBreak(_, _)
\* GraphLoop with break in the place of continue: the loop ends at the
\* first constant or errored column
GraphLoopBreak(g, items) ==
    IF items = <<>> THEN g
    ELSE LET cols_refs == MAPS_DTYPES(Head(items).node)
             g2 == GraphStep(g, Head(items).name, Head(items).node)
         IN IF IsRaise(g2) THEN g2
            ELSE IF Truthy(cols_refs.error) \/ cols_refs.constants THEN g
            ELSE GraphLoopBreak(g2, Tail(items))

RECURSIVE GraphLoop(_, _)
\* for col_name, col in cols.items(): the first exception ends the loop
GraphLoop(g, items) ==
    IF items = <<>> THEN g
    ELSE LET g2 == GraphStep(g, Head(items).name, Head(items).node) IN
         IF IsRaise(g2) THEN g2
         ELSE GraphLoop(g2, Tail(items))

\* cols.keys(), in the insertion order of the mapping
Keys(c) == [i \in DOMAIN c |-> c[i].name]

create_dependency_graph(c) == GraphLoop(Graph(Keys(c)), c)

(***************************************************************************)
(* utils.py                                                                *)
(***************************************************************************)
\* entry [source][target] of graph.get_adjacency(): the number of edges
Adjacency(g, source, target) ==
    Cardinality({k \in DOMAIN g.es : g.es[k] = <<source, target>>})

get_outgoing_connections(g, source_node) ==
    IF source_node \notin Elems(g.vs) THEN 0
    ELSE SumSeq([j \in DOMAIN g.vs |-> Adjacency(g, source_node, g.vs[j])])

RECURSIVE KahnRemaining(_, _)
\* Graph.is_dag(): vertices without an incoming edge from the remaining
\* vertices are removed until none is left (a DAG) or none can be removed
KahnRemaining(g, remaining) ==
    LET free == {v \in remaining :
                    \A k \in DOMAIN g.es :
                        ~(g.es[k][2] = v /\ g.es[k][1] \in remaining)} IN
    IF free = {} THEN remaining ELSE KahnRemaining(g, remaining \ free)

is_dag(g) == KahnRemaining(g, Elems(g.vs)) = {}

\* has_cyclic_dependencies without its negation
HasCyclicDependenciesNotNegated(g) == is_dag(g)

has_cyclic_dependencies(g) == ~is_dag(g)

(***************************************************************************)
(* list(set(priorities.values())) of builder.py: the iteration order of a  *)
(* CPython set of small non-negative integers.  hash(n) = n; a table of    *)
(* 8 slots (mask 7) is probed at n & mask, then along the perturbed        *)
(* sequence i = (5 i + 1 + perturb) & mask with perturb >>= 5, after up to *)
(* 9 linear probes when these stay inside the table; the table grows to    *)
(* the first power of two above 4 * used once fill * 5 >= mask * 3.  A     *)
(* free slot holds -1.  Iteration is in slot order.                        *)
(***************************************************************************)
RECURSIVE SetProbe(_, _, _, _, _, _)
SetProbe(table, mask, key, i, perturb, j) ==
    IF table[i + j] = -1 \/ table[i + j] = key THEN i + j
    ELSE IF j < (IF i + 9 <= mask THEN 9 ELSE 0)
         THEN SetProbe(table, mask, key, i, perturb, j + 1)
         ELSE SetProbe(table, mask, key,
                       (i * 5 + 1 + (perturb \div 32)) % (mask + 1),
                       perturb \div 32, 0)

SetInsert(table, mask, key) ==
    [table EXCEPT ![SetProbe(table, mask, key, key % (mask + 1), key, 0)] = key]

RECURSIVE SetNewSize(_, _)
SetNewSize(newsize, minused) ==
    IF newsize <= minused THEN SetNewSize(newsize * 2, minused) ELSE newsize

RECURSIVE SetReinsert(_, _, _, _)
\* set_table_resize: the old entries go into the new table in slot order
SetReinsert(old, slot, table, mask) ==
    IF slot \notin DOMAIN old THEN table
    ELSE SetReinsert(old, slot + 1,
                     IF old[slot] = -1 THEN table
                     ELSE SetInsert(table, mask, old[slot]),
                     mask)

SetAdd(so, key) ==
    LET t == SetInsert(so.table, so.mask, key)
        fill == Cardinality({k \in DOMAIN t : t[k] # -1})
        size == SetNewSize(8, fill * 4)
    IN  IF fill * 5 < so.mask * 3 THEN [mask |-> so.mask, table |-> t]
        ELSE [mask |-> size - 1,
              table |-> SetReinsert(t, 0, [k \in 0..(size - 1) |-> -1], size - 1)]

RECURSIVE SetUpdate(_, _)
SetUpdate(so, values) ==
    IF values = <<>> THEN so ELSE SetUpdate(SetAdd(so, Head(values)), Tail(values))

RECURSIVE SlotOrder(_, _)
SlotOrder(table, slot) ==
    IF slot \notin DOMAIN table THEN <<>>
    ELSE (IF table[slot] = -1 THEN <<>> ELSE <<table[slot]>>)
         \o SlotOrder(table, slot + 1)

PySetOrder(values) ==
    SlotOrder(SetUpdate([mask |-> 7, table |-> [k \in 0..7 |-> -1]], values).table, 0)

(***************************************************************************)
(* builder.py                                                              *)
(***************************************************************************)
RECURSIVE InsertBeforeEqual(_, _)
\* InsertByLevel for a sort that is not stable: x goes before the elements
\* of equal key
InsertBeforeEqual(sorted_pairs, x) ==
    IF sorted_pairs = <<>> THEN <<x>>
    ELSE IF Head(sorted_pairs)[2] < x[2]
         THEN <<Head(sorted_pairs)>> \o InsertBeforeEqual(Tail(sorted_pairs), x)
         ELSE <<x>> \o sorted_pairs

RECURSIVE InsertByLevel(_, _)
\* x goes after every element whose key is not greater (a stable insertion)
InsertByLevel(sorted_pairs, x) ==
    IF sorted_pairs = <<>> THEN <<x>>
    ELSE IF Head(sorted_pairs)[2] <= x[2]
         THEN <<Head(sorted_pairs)>> \o InsertByLevel(Tail(sorted_pairs), x)
         ELSE <<x>> \o sorted_pairs

RECURSIVE SortedByLevel(_)
\* sorted(pairs, key=lambda x: x[1]): ascending, stable
SortedByLevel(pairs) ==
    IF pairs = <<>> THEN <<>>
    ELSE InsertByLevel(SortedByLevel(SubSeq(pairs, 1, Len(pairs) - 1)),
                       pairs[Len(pairs)])

\* dtypes[col].get('extra', '')
Extra(d, col) == IF "extra" \in DOMAIN d[col] THEN d[col].extra ELSE ""

\* f"{col} {dtypes[col]['type']}{dtypes[col].get('extra', '')}"
BaseSql(d, col) == <<col, " ", d[col].type, Extra(d, col)>>

RECURSIVE CreateTable(_, _, _, _)
\* the loop over enumerate(level_0) that extends sql_expressions[0]
CreateTable(text, level_0, i, d) ==
    IF i > Len(level_0) THEN text
    ELSE CreateTable(
             text \o BaseSql(d, level_0[i][1])
                  \o (IF i = Len(level_0) THEN <<");">> ELSE <<", ">>),
             level_0, i + 1, d)

\* the text after GENERATED ALWAYS AS in an ALTER TABLE statement
GeneratedAs(sql) == sql

\* the statement lines 49-50 of build_sql build for col, c being cols[col]
AlterTable(c, col, d, tbl) ==
    <<"ALTER TABLE ", tbl, " ADD COLUMN ">> \o BaseSql(d, col) \o <<" ">>
    \o <<"GENERATED ALWAYS AS ">> \o GeneratedAs(c.sql) \o <<" STORED;">>

\* cols[col]
Lookup(c, col) == c[CHOOSE i \in DOMAIN c : c[i].name = col].node

RECURSIVE AppendAlters(_, _, _, _, _)
\* for col, level in other_levels: sql_expressions[level].append(...);
\* cols[col]['sql'] raises KeyError for a node without sql field (a cell
\* range)
AppendAlters(levels, other_levels, c, d, tbl) ==
    IF other_levels = <<>> THEN [levels |-> levels]
    ELSE LET col == Head(other_levels)[1]
             level == Head(other_levels)[2]
         IN IF "sql" \notin DOMAIN Lookup(c, col) THEN Raise("KeyError: 'sql'")
            ELSE AppendAlters(
                     [levels EXCEPT
                         ![level] = Append(@, AlterTable(Lookup(c, col), col, d, tbl))],
                     Tail(other_levels), c, d, tbl)

\* priorities, as the list of its items in insertion order
Priorities(c, g) ==
    [i \in DOMAIN c |-> <<c[i].name, get_outgoing_connections(g, c[i].name)>>]

\* the columns of level 1 pass the filter of level 0 too
IsLevel0AtMostOne(pair) == pair[2] <= 1

\* the two filters over priorities.items()
IsLevel0(pair) == pair[2] = 0

IsOtherLevel(pair) == pair[2] # 0

\* the keys of sql_expressions after the merge, in insertion order
LevelKeys(items) ==
    <<0>> \o SelectSeq(PySetOrder([i \in DOMAIN items |-> items[i][2]]),
                       LAMBDA level : level > 0)

\* the returned dict: keys in insertion order, the text under key 0 and the
\* list of statements under every other key
build_sql(c, g, d, tbl) ==
    IF has_cyclic_dependencies(g)
    THEN Raise(CyclicError)
    ELSE LET level_0 == SelectSeq(Priorities(c, g), IsLevel0)
             keys == LevelKeys(Priorities(c, g))
             other_levels == SortedByLevel(SelectSeq(Priorities(c, g), IsOtherLevel))
             appended == AppendAlters([level \in Elems(keys) \ {0} |-> <<>>],
                                      other_levels, c, d, tbl)
         IN IF IsRaise(appended) THEN appended
            ELSE [keys |-> keys,
                  create |-> CreateTable(<<"CREATE TABLE IF NOT EXISTS ", tbl, " (">>,
                                         level_0, 1, d),
                  levels |-> appended.levels]

(***************************************************************************)
(* main.py                                                                 *)
(***************************************************************************)
RECURSIVE JoinExpressions(_)
\* for expr in expressions: sql_expression += f"\n{expr}"
JoinExpressions(expressions) ==
    IF expressions = <<>> THEN <<>>
    ELSE <<"\n">> \o Head(expressions) \o JoinExpressions(Tail(expressions))

RECURSIVE JoinLevels(_, _)
\* for level, expressions in sql_expressions.items(): skip level 0
JoinLevels(sql, keys) ==
    IF keys = <<>> THEN <<>>
    ELSE (IF Head(keys) = 0 THEN <<>> ELSE JoinExpressions(sql.levels[Head(keys)]))
         \o JoinLevels(sql, Tail(keys))

\* the CREATE TABLE statement is not followed by "\n"
AssembleNoBlankLine(sql) == sql.create \o JoinLevels(sql, sql.keys)

Assemble(sql) == sql.create \o <<"\n">> \o JoinLevels(sql, sql.keys)

(***************************************************************************)
(* The inputs of main(cols, dtypes, table_name).                           *)
(***************************************************************************)
CellNodes == {CellMapsOutput(c) : c \in ColNames} \cup {CellMapsOutputError}

ConstantNodes ==
    {NumberMapsOutput("10"), LogicalMapsOutput("TRUE"), TextMapsOutput("Adult")}

CellRangeNodes ==
    {CellRangeMapsOutput("cell_range", <<"col1", "col1">>, None),
     CellRangeMapsOutput("cell_range", <<>>, "KeyError('Z')"),
     CellRangeMapsOutput("cell-range", <<"col1", "col2">>, None)}

Col1Over18 ==
    BinaryExpressionMapsOutput(">", CellMapsOutput("col1"), NumberMapsOutput("18"))

BinaryNodes ==
    {Col1Over18,
     BinaryExpressionMapsOutput("+", CellMapsOutput("col1"), CellMapsOutput("col2")),
     BinaryExpressionMapsOutput("+", NumberMapsOutput("5"), NumberMapsOutput("3")),
     BinaryExpressionMapsOutput("+", CellMapsOutputError, NumberMapsOutput("5"))}

\* col2 of the example of main.py: IF(col1 > 18, 'Adult', 'Minor')
IfAdultMinor ==
    FunctionMapsOutput("IF",
        <<Col1Over18, TextMapsOutput("Adult"), TextMapsOutput("Minor")>>,
        <<"CASE WHEN ">> \o Col1Over18.sql \o <<" THEN ">> \o TextMapsOutput("Adult").sql
            \o <<" ELSE ">> \o TextMapsOutput("Minor").sql \o <<" END">>)

RECURSIVE JoinSql(_, _)
\* sep.join(arg["sql"] for arg in arguments)
JoinSql(arguments, sep) ==
    IF arguments = <<>> THEN <<>>
    ELSE IF Len(arguments) = 1 THEN Head(arguments).sql
    ELSE Head(arguments).sql \o <<sep>> \o JoinSql(Tail(arguments), sep)

AndOf(arguments) == FunctionMapsOutput("AND", arguments, JoinSql(arguments, " AND "))

FunctionNodes ==
    {IfAdultMinor,
     AndOf(<<CellMapsOutput("col1"), CellMapsOutput("col1"), CellMapsOutput("col2")>>),
     AndOf(<<CellMapsOutputError, LogicalMapsOutput("TRUE")>>),
     FunctionMapsOutput("SUM",
        <<CellRangeMapsOutput("cell_range", <<"col1", "col1", "col2">>, None)>>,
        <<"col1", " + ", "col1", " + ", "col2">>),
     FunctionMapsOutput("SUM",
        <<CellRangeMapsOutput("cell-range", <<"col1", "col2">>, None)>>,
        <<"col1", " + ", "col2">>)}

Nodes == CellNodes \cup ConstantNodes \cup CellRangeNodes \cup BinaryNodes \cup FunctionNodes

\* the mappings with distinct keys among names, in any insertion order, of
\* at most n entries, with any node of nodes per key
ColsOver(names, nodes, n) ==
    UNION {{c \in [1..k -> [name : names, node : nodes]] :
               \A i, j \in 1..k : c[i].name = c[j].name => i = j}
           : k \in 0..n}

\* a table of WideLen base columns b1, b2, ..., all constant
BaseNames == SubSeq(<<"b1", "b2", "b3", "b4", "b5", "b6", "b7", "b8", "b9", "b10">>,
                    1, WideLen)

BaseCols == [i \in 1..WideLen |-> [name |-> BaseNames[i], node |-> NumberMapsOutput("10")]]

\* a generated column over every base column, and narrower ones
WideNodes ==
    {AndOf([i \in 1..WideLen |-> CellMapsOutput(BaseNames[i])]),
     AndOf(<<CellMapsOutput("b1"), CellMapsOutput("b2")>>),
     CellMapsOutput("b1"), CellMapsOutput("col1"), NumberMapsOutput("10")}

\* the base table with up to MaxGenerated generated columns before or after it
WideInputs ==
    UNION {{SubSeq(c, 1, k) \o BaseCols \o SubSeq(c, k + 1, Len(c)) : k \in 0..Len(c)}
           : c \in ColsOver(ColNames, WideNodes, MaxGenerated)}

ColsInputs == ColsOver(ColNames, Nodes, Cardinality(ColNames)) \cup WideInputs

DtypesInput ==
    [c \in ColNames \cup Elems(BaseNames) |->
        IF c \in {"col1", "b1"} THEN [type |-> "INTEGER", extra |-> " NOT NULL"]
        ELSE IF c = "col2" THEN [type |-> "TEXT"]
        ELSE [type |-> "INTEGER"]]

(***************************************************************************)
(* Column Addressing (ddl-generator utils.py).  A cell address, a column   *)
(* and a function name are sequences of characters.                        *)
(***************************************************************************)
UpperLetters ==
    <<"A", "B", "C", "D", "E", "F", "G", "H", "I", "J", "K", "L", "M",
      "N", "O", "P", "Q", "R", "S", "T", "U", "V", "W", "X", "Y", "Z">>

LowerLetters ==
    <<"a", "b", "c", "d", "e", "f", "g", "h", "i", "j", "k", "l", "m",
      "n", "o", "p", "q", "r", "s", "t", "u", "v", "w", "x", "y", "z">>

\* str.isalpha of one character
isalpha(ch) == ch \in Elems(UpperLetters) \cup Elems(LowerLetters)

\* str.upper of one character
UpperChar(ch) ==
    IF ch \in Elems(LowerLetters)
    THEN UpperLetters[CHOOSE k \in DOMAIN LowerLetters : LowerLetters[k] = ch]
    ELSE ch

\* str.upper
upper(s) == [k \in DOMAIN s |-> UpperChar(s[k])]

\* ord(char) - ord("A") + 1 of an upper-case letter
Ord(ch) == CHOOSE k \in DOMAIN UpperLetters : UpperLetters[k] = ch

\* "".join(filter(str.isalpha, cell))
get_column_from_cell(cell) == SelectSeq(cell, isalpha)

RECURSIVE ExcelColLoop(_, _)
\* for char in col: index = index * 26 + (ord(char) - ord("A") + 1)
ExcelColLoop(col, index) ==
    IF col = <<>> THEN index
    ELSE ExcelColLoop(Tail(col), index * 26 + Ord(Head(col)))

excel_col_to_index(col) == ExcelColLoop(upper(col), 0)

RECURSIVE IndexToExcelColNoAdjust(_)
\* without index -= 1: the letters stand for 0..25, as digits of base 26
IndexToExcelColNoAdjust(index) ==
    IF index <= 0 THEN <<>>
    ELSE IndexToExcelColNoAdjust(index \div 26) \o <<UpperLetters[(index % 26) + 1]>>

RECURSIVE index_to_excel_col(_)
\* while index > 0: index -= 1; col = chr(index % 26 + ord("A")) + col;
\* index //= 26
index_to_excel_col(index) ==
    IF index <= 0 THEN <<>>
    ELSE index_to_excel_col((index - 1) \div 26)
         \o <<UpperLetters[((index - 1) % 26) + 1]>>

\* range(start_idx, end_idx): the end column is left out
GetColumnRangeExclusive(start, end) ==
    LET start_idx == excel_col_to_index(start)
        end_idx == excel_col_to_index(end)
    IN IF end_idx <= start_idx THEN <<>>
       ELSE [k \in 1..(end_idx - start_idx) |-> index_to_excel_col(start_idx + k - 1)]

\* [index_to_excel_col(i) for i in range(start_idx, end_idx + 1)]
get_column_range(start, end) ==
    LET start_idx == excel_col_to_index(start)
        end_idx == excel_col_to_index(end)
    IN IF end_idx < start_idx THEN <<>>
       ELSE [k \in 1..(end_idx - start_idx + 1) |-> index_to_excel_col(start_idx + k - 1)]

(***************************************************************************)
(* Expression Codegen (ddl-generator generator.py, sql.py).                *)
(***************************************************************************)
\* repr(e) of the KeyError of a failed lookup: some non-empty text
KeyErrorRepr == "KeyError('column')"

\* str.replace(old, "")
replace(s, old) == SelectSeq(s, LAMBDA ch : ch # old)

\* lookup failure raises KeyError, which escapes cell_maps
CellMapsUncaught(ast, columns) ==
    IF ast.type # "cell" THEN Raise("ValueError: AST must be of type 'cell'")
    ELSE LET cell == replace(ast.key, "$")
             column == get_column_from_cell(cell)
         IN IF column \in DOMAIN columns
            THEN [type |-> "cell", cell |-> cell, refType |-> ast.refType,
                  column |-> columns[column], error |-> None,
                  sql |-> <<columns[column]>>]
            ELSE Raise("KeyError: no such column")

cell_maps(ast, columns) ==
    IF ast.type # "cell" THEN Raise("ValueError: AST must be of type 'cell'")
    ELSE LET cell == replace(ast.key, "$")
             column == get_column_from_cell(cell)
         IN IF column \in DOMAIN columns
            THEN [type |-> "cell", cell |-> cell, refType |-> ast.refType,
                  column |-> columns[column], error |-> None,
                  sql |-> <<columns[column]>>]
            ELSE [type |-> "cell", cell |-> cell, refType |-> ast.refType,
                  column |-> "", error |-> KeyErrorRepr, sql |-> <<"">>]

\* the mapped letters are kept and the unmapped ones left out
CellRangeMapsPartial(ast, columns) ==
    IF ast.type # "cell-range" THEN Raise("ValueError: AST must be of type 'cell-range'")
    ELSE LET left == cell_maps(ast.left, columns)
             right == cell_maps(ast.right, columns)
         IN IF IsRaise(left) THEN left
            ELSE IF IsRaise(right) THEN right
            ELSE LET range_cell == get_column_range(get_column_from_cell(left.cell),
                                                    get_column_from_cell(right.cell))
                     found == SelectSeq(range_cell, LAMBDA col : col \in DOMAIN columns)
                 IN [type |-> "cell-range", start |-> left.cell, end |-> right.cell,
                     cells |-> range_cell,
                     columns |-> [k \in DOMAIN found |-> columns[found[k]]],
                     error |-> IF found = range_cell THEN None ELSE KeyErrorRepr]

cell_range_maps(ast, columns) ==
    IF ast.type # "cell-range" THEN Raise("ValueError: AST must be of type 'cell-range'")
    ELSE LET left == cell_maps(ast.left, columns)
             right == cell_maps(ast.right, columns)
         IN IF IsRaise(left) THEN left
            ELSE IF IsRaise(right) THEN right
            ELSE LET range_cell == get_column_range(get_column_from_cell(left.cell),
                                                    get_column_from_cell(right.cell))
                     found == \A k \in DOMAIN range_cell : range_cell[k] \in DOMAIN columns
                 IN [type |-> "cell-range", start |-> left.cell, end |-> right.cell,
                     cells |-> range_cell,
                     columns |-> IF found
                                 THEN [k \in DOMAIN range_cell |-> columns[range_cell[k]]]
                                 ELSE <<>>,
                     error |-> IF found THEN None ELSE KeyErrorRepr]

\* the text of float(value) for the number values of the inputs
float(value) ==
    CASE value = "5" -> "5.0"
      [] value = "20" -> "20.0"
      [] OTHER -> value

number_maps(ast) ==
    IF ast.type # "number" THEN Raise("ValueError: AST must be of type 'number'")
    ELSE [type |-> "number", value |-> float(ast.value), sql |-> <<ast.value>>]

\* a logical value is a boolean, Bool(b), or a string of characters, Str(s)
Bool(b) == [bool |-> b]

Str(s) == [str |-> s]

\* str(value): "True" and "False" for the booleans, a string is itself
str(value) ==
    IF "bool" \in DOMAIN value
    THEN IF value.bool THEN <<"T", "r", "u", "e">> ELSE <<"F", "a", "l", "s", "e">>
    ELSE value.str

LowerChar(ch) ==
    IF \E k \in 1..26 : UpperLetters[k] = ch
    THEN LowerLetters[CHOOSE k \in 1..26 : UpperLetters[k] = ch]
    ELSE ch

\* str.lower()
lower(s) == [k \in 1..Len(s) |-> LowerChar(s[k])]

\* the text is compared as it is written, without lower()
LogicalMapsCaseSensitive(ast) ==
    IF ast.type # "logical" THEN Raise("ValueError: AST must be of type 'logical'")
    ELSE LET value == str(ast.value) = <<"t", "r", "u", "e">> IN
         [type |-> "logical", value |-> value,
          sql |-> <<IF value THEN "TRUE" ELSE "FALSE">>]

logical_maps(ast) ==
    IF ast.type # "logical" THEN Raise("ValueError: AST must be of type 'logical'")
    ELSE LET value == lower(str(ast.value)) = <<"t", "r", "u", "e">> IN
         [type |-> "logical", value |-> value,
          sql |-> <<IF value THEN "TRUE" ELSE "FALSE">>]

RECURSIVE Join(_, _)
\* sep.join(names)
Join(names, sep) ==
    IF names = <<>> THEN <<>>
    ELSE IF Len(names) = 1 THEN <<Head(names)>>
    ELSE <<Head(names), sep>> \o Join(Tail(names), sep)

\* the columns joined by ", "
SqlSumComma(args) ==
    IF args = <<>> THEN Raise("IndexError: list index out of range")
    ELSE IF "columns" \notin DOMAIN args[1] THEN Raise("KeyError: 'columns'")
    ELSE [sql |-> Join(args[1].columns, ", ")]

\* "SUM": lambda args: " + ".join(args[0]["columns"])
SqlSum(args) ==
    IF args = <<>> THEN Raise("IndexError: list index out of range")
    ELSE IF "columns" \notin DOMAIN args[1] THEN Raise("KeyError: 'columns'")
    ELSE [sql |-> Join(args[1].columns, " + ")]

\* "IF": the f-string reads args[0]["sql"], args[1]["sql"], args[2]["sql"]
SqlIf(args) ==
    LET bad == {k \in 1..3 : Len(args) < k \/ "sql" \notin DOMAIN args[k]} IN
    IF bad = {}
    THEN [sql |-> <<"CASE WHEN ">> \o args[1].sql \o <<" THEN ">> \o args[2].sql
                  \o <<" ELSE ">> \o args[3].sql \o <<" END">>]
    ELSE IF Len(args) < CHOOSE k \in bad : \A j \in bad : k <= j
         THEN Raise("IndexError: list index out of range")
         ELSE Raise("KeyError: 'sql'")

\* "AND": " AND ".join(arg["sql"] for arg in args); the sql of a number
\* node is the number itself, which str.join rejects
SqlAnd(args) ==
    IF \E k \in DOMAIN args : "sql" \notin DOMAIN args[k] THEN Raise("KeyError: 'sql'")
    ELSE IF \E k \in DOMAIN args : args[k].type = "number"
    THEN Raise("TypeError: expected str instance")
    ELSE [sql |-> JoinSql(args, " AND ")]

\* the keys of FUNCTION_SQL_MAP
FUNCTION_SQL_MAP == {<<"S", "U", "M">>, <<"I", "F">>, <<"A", "N", "D">>}

\* the name is looked up as given, without upper()
GetSqlExactName(func_name, args) ==
    CASE func_name = <<"S", "U", "M">> -> SqlSum(args)
      [] func_name = <<"I", "F">> -> SqlIf(args)
      [] func_name = <<"A", "N", "D">> -> SqlAnd(args)
      [] OTHER -> [sql |-> <<"UNSUPPORTED_FUNCTION(">> \o func_name \o <<")">>]

get_sql_from_function(func_name, args) ==
    CASE upper(func_name) = <<"S", "U", "M">> -> SqlSum(args)
      [] upper(func_name) = <<"I", "F">> -> SqlIf(args)
      [] upper(func_name) = <<"A", "N", "D">> -> SqlAnd(args)
      [] OTHER -> [sql |-> <<"UNSUPPORTED_FUNCTION(">> \o func_name \o <<")">>]

RECURSIVE MAPS(_, _)

\* an operand whose error is set ends the translation
BinaryMapsErrorFatal(ast, columns) ==
    IF ast.type # "binary-expression"
    THEN Raise("ValueError: AST must be of type 'binary-expression'")
    ELSE LET left == MAPS(ast.left, columns) IN
         IF IsRaise(left) THEN left
         ELSE LET right == MAPS(ast.right, columns) IN
              IF IsRaise(right) THEN right
              ELSE IF "sql" \notin DOMAIN left \/ "sql" \notin DOMAIN right
              THEN Raise("KeyError: 'sql'")
              ELSE IF \E operand \in {left, right} :
                          "error" \in DOMAIN operand /\ operand.error # None
              THEN Raise("KeyError: 'column'")
              ELSE BinaryExpressionMapsOutput(ast.operator, left, right)

binary_maps(ast, columns) ==
    IF ast.type # "binary-expression"
    THEN Raise("ValueError: AST must be of type 'binary-expression'")
    ELSE LET left == MAPS(ast.left, columns) IN
         IF IsRaise(left) THEN left
         ELSE LET right == MAPS(ast.right, columns) IN
              IF IsRaise(right) THEN right
              ELSE IF "sql" \notin DOMAIN left \/ "sql" \notin DOMAIN right
              THEN Raise("KeyError: 'sql'")
              ELSE BinaryExpressionMapsOutput(ast.operator, left, right)

RECURSIVE MapArguments(_, _, _)
\* [MAPS[arg["type"]](arg, columns) for arg in args_raw]: the first argument
\* whose translation raises ends the comprehension with that exception
MapArguments(args_raw, columns, acc) ==
    IF args_raw = <<>> THEN [arguments |-> acc]
    ELSE LET arg == MAPS(Head(args_raw), columns) IN
         IF IsRaise(arg) THEN arg
         ELSE MapArguments(Tail(args_raw), columns, Append(acc, arg))

function_maps(ast, columns) ==
    IF ast.type # "function" THEN Raise("ValueError: AST must be of type 'function'")
    ELSE LET args == MapArguments(IF "arguments" \in DOMAIN ast THEN ast.arguments ELSE <<>>,
                                  columns, <<>>)
         IN IF IsRaise(args) THEN args
            ELSE LET sql == get_sql_from_function(ast.name, args.arguments) IN
                 IF IsRaise(sql) THEN sql
                 ELSE FunctionMapsOutput(ast.name, args.arguments, sql.sql)

\* a tag that is no key of the table gives a node without content
MapsLenient(ast, columns) ==
    CASE ast.type = "binary-expression" -> binary_maps(ast, columns)
      [] ast.type = "cell-range" -> cell_range_maps(ast, columns)
      [] ast.type = "function" -> function_maps(ast, columns)
      [] ast.type = "cell" -> cell_maps(ast, columns)
      [] ast.type = "number" -> number_maps(ast)
      [] ast.type = "logical" -> logical_maps(ast)
      [] OTHER -> [type |-> ast.type, sql |-> <<"">>]

\* the dispatch table: a tag that is no key of it raises KeyError
MAPS(ast, columns) ==
    CASE ast.type = "binary-expression" -> binary_maps(ast, columns)
      [] ast.type = "cell-range" -> cell_range_maps(ast, columns)
      [] ast.type = "function" -> function_maps(ast, columns)
      [] ast.type = "cell" -> cell_maps(ast, columns)
      [] ast.type = "number" -> number_maps(ast)
      [] ast.type = "logical" -> logical_maps(ast)
      [] OTHER -> Raise("KeyError: no such type")

\* ddl-generator main(data)
ddl_generator_main(d) == MAPS(d.ast, d.columns)

(***************************************************************************)
(* The inputs of ddl-generator main(data): an AST and a column mapping.    *)
(***************************************************************************)
ColumnNames == <<"col1", "col2", "col3", "col4", "col5", "col6", "col7", "col8">>

Letter(k) == <<UpperLetters[k]>>

\* {"A": "col1", "B": "col2", ...} for the letters whose index is in S
Mapping(S) == [c \in {Letter(k) : k \in S} |-> ColumnNames[Ord(c[1])]]

\* a mapping of columns around the step from one letter to two
MappingYtoAB ==
    [c \in {<<"Y">>, <<"Z">>, <<"A", "A">>, <<"A", "B">>} |->
        CASE c = <<"Y">> -> "colY" [] c = <<"Z">> -> "colZ"
          [] c = <<"A", "A">> -> "colAA" [] OTHER -> "colAB"]

\* the first letters mapped, all of them or all but one, and MappingYtoAB
ColumnsInputs ==
    {Mapping(1..n) : n \in 0..MaxLetters}
    \cup {Mapping((1..MaxLetters) \ {k}) : k \in 1..MaxLetters}
    \cup {MappingYtoAB}

\* the address of a cell: relative A1, absolute $A$1, mixed A$1 and $A1
Address(col, row, style) ==
    CASE style = "A1" -> col \o <<row>>
      [] style = "$A$1" -> <<"$">> \o col \o <<"$", row>>
      [] style = "A$1" -> col \o <<"$", row>>
      [] OTHER -> <<"$">> \o col \o <<row>>

Styles == {"A1", "$A$1", "A$1", "$A1"}

RefType(key) ==
    LET dollars == Len(SelectSeq(key, LAMBDA ch : ch = "$")) IN
    IF dollars = 0 THEN "relative" ELSE IF dollars = 2 THEN "absolute" ELSE "mixed"

Cell(key) == [type |-> "cell", refType |-> RefType(key), key |-> key]

Number(value) == [type |-> "number", value |-> value]

Logical(value) == [type |-> "logical", value |-> value]

Text(value) == [type |-> "text", value |-> value]

CellRange(left, right) == [type |-> "cell-range", left |-> Cell(left), right |-> Cell(right)]

Binary(operator, left, right) ==
    [type |-> "binary-expression", operator |-> operator, left |-> left, right |-> right]

Function(name, arguments) == [type |-> "function", name |-> name, arguments |-> arguments]

A1 == Address(Letter(1), "1", "A1")

B1 == Address(Letter(2), "1", "A1")

\* the first letter after the mapped ones
Unmapped1 == Address(Letter(MaxLetters + 1), "1", "A1")

CellKeys ==
    {Address(Letter(k), "1", s) : k \in 1..(MaxLetters + 1), s \in Styles}
    \cup {Address(Letter(1), "7", "A1"), <<"a", "1">>, <<"A", "A", "1", "0">>, <<"1">>}

CellAsts == {Cell(key) : key \in CellKeys}

\* the two booleans, the two words in several cases, and other strings
LogicalValues ==
    {Bool(TRUE), Bool(FALSE)}
    \cup {Str(s) : s \in {<<"t", "r", "u", "e">>, <<"T", "R", "U", "E">>,
                          <<"T", "r", "u", "e">>, <<"t", "R", "u", "E">>,
                          <<"f", "a", "l", "s", "e">>, <<"F", "A", "L", "S", "E">>,
                          <<"F", "a", "l", "s", "e">>, <<"f", "A", "l", "S", "e">>,
                          <<"y", "e", "s">>, <<"1">>, <<"t", "r", "u", "e", " ">>,
                          <<>>}}

LiteralAsts ==
    {Number("5"), Number("2.1"), Text("Adult")}
    \cup {Logical(value) : value \in LogicalValues}

RangeEnds ==
    {Address(Letter(k), row, "A1") : k \in 1..(MaxLetters + 1), row \in {"1", "7"}}
    \cup {Address(Letter(1), "1", "$A$1"), <<"a", "1">>, <<"Y", "1">>, <<"A", "B", "1">>}

CellRangeAsts == {CellRange(left, right) : left, right \in RangeEnds}

OperandAsts ==
    {Cell(A1), Cell(Address(Letter(1), "1", "$A$1")), Cell(Unmapped1),
     Number("5"), Number("2.1"), Logical(Bool(TRUE)), Text("Adult"), CellRange(A1, B1)}

BinaryAsts ==
    {Binary(operator, left, right) :
        operator \in {"+", ">", "<>"}, left \in OperandAsts, right \in OperandAsts}

A1Over5 == Binary(">", Cell(A1), Number("5"))

B1Under20 == Binary("<", Cell(B1), Number("20"))

\* AND(A1 > 5, B1 < 20) of the example of main.py
AndAst == Function(<<"A", "N", "D">>, <<A1Over5, B1Under20>>)

SumAst(left, right) == Function(<<"S", "U", "M">>, <<CellRange(left, right)>>)

\* the formula of the example of main.py:
\* =SUM(A1:$E$1) + IF(AND(A1 > 5, B1 < 20), TRUE, FALSE) - E1 / 2.1
ExampleAst ==
    Binary("-",
        Binary("+",
            SumAst(A1, Address(Letter(5), "1", "$A$1")),
            Function(<<"I", "F">>, <<AndAst, Logical(Bool(TRUE)), Logical(Bool(FALSE))>>)),
        Binary("/", Cell(Address(Letter(5), "1", "A1")), Number("2.1")))

FunctionNames ==
    {<<"S", "U", "M">>, <<"s", "u", "m">>, <<"S", "u", "m">>,
     <<"I", "F">>, <<"i", "f">>, <<"A", "N", "D">>, <<"A", "n", "d">>,
     <<"V", "L", "O", "O", "K", "U", "P">>, <<"v", "L", "o", "o", "k", "u", "p">>}

ConditionAsts == {A1Over5, AndAst, Cell(A1), Logical(Bool(TRUE)), CellRange(A1, B1)}

BranchAsts ==
    {Logical(Bool(TRUE)), Logical(Bool(FALSE)), Cell(B1), Number("5"), Text("Adult"),
     CellRange(A1, B1),
     Function(<<"I", "F">>, <<A1Over5, Number("5"), Cell(Unmapped1)>>)}

ArgumentLists ==
    {<<>>}
    \cup {<<CellRange(left, right)>> :
             left \in {A1, Address(Letter(1), "7", "A1"), Address(Letter(1), "1", "$A$1")},
             right \in {A1, Address(Letter(3), "1", "A1"), Address(Letter(3), "7", "A1"),
                        Unmapped1}}
    \cup {<<Cell(A1)>>, <<Text("Adult")>>, <<A1Over5, B1Under20>>,
          <<Number("5"), Cell(A1)>>, <<Cell(A1), CellRange(A1, B1)>>}
    \cup {<<cond, whenTrue, whenFalse>> :
             cond \in ConditionAsts, whenTrue \in BranchAsts, whenFalse \in BranchAsts}

FunctionAsts ==
    {Function(name, arguments) : name \in FunctionNames, arguments \in ArgumentLists}

\* a node of a tag that is no key of MAPS
UnknownAst == [type |-> "unknown"]

\* trees with such a node at the root and at depth one, two and three
UnknownTagAsts ==
    {UnknownAst,
     Binary("+", UnknownAst, Number("5")),
     Binary("+", Cell(A1), UnknownAst),
     Binary("+", Cell(Unmapped1), UnknownAst),
     Binary("+", Cell(A1), Binary(">", UnknownAst, Number("5"))),
     Binary("+", Function(<<"S", "U", "M">>, <<>>), UnknownAst),
     Binary("+", UnknownAst, Function(<<"S", "U", "M">>, <<>>)),
     Function(<<"V", "L", "O", "O", "K", "U", "P">>, <<UnknownAst>>),
     Function(<<"I", "F">>, <<A1Over5, Number("5"), UnknownAst>>),
     Function(<<"S", "U", "M">>, <<CellRange(A1, B1), Binary("+", Number("5"), UnknownAst)>>),
     Function(<<"I", "F">>,
              <<A1Over5, Function(<<"A", "N", "D">>, <<Cell(A1), UnknownAst>>), Number("5")>>),
     Binary("-", Number("5"),
            Function(<<"I", "F">>, <<A1Over5, Binary("+", Cell(B1), Text("Adult")), Cell(B1)>>)),
     [type |-> "cell-range", left |-> UnknownAst, right |-> Cell(B1)],
     [type |-> "cell-range", left |-> Cell(A1), right |-> Text("Adult")]}

AstInputs ==
    CellAsts \cup LiteralAsts \cup CellRangeAsts \cup BinaryAsts \cup FunctionAsts
    \cup UnknownTagAsts
    \cup {ExampleAst, [type |-> "function", name |-> <<"N", "O", "W">>]}

NoData == [ast |-> [type |-> "none"], columns |-> <<>>]

NoOutput == [type |-> "none"]

NoSql == [keys |-> <<>>, create |-> <<>>, levels |-> <<>>]

Init ==
    /\ cols \in ColsInputs
    /\ dtypes = DtypesInput
    /\ table_name = "test_table"
    /\ pc = "create_dependency_graph"
    /\ graph = Graph(<<>>)
    /\ priorities = <<>>
    /\ sql_expressions = NoSql
    /\ script = <<>>
    /\ raised = None
    /\ data = NoData
    /\ output = NoOutput

\* main, line 24: graph = create_dependency_graph(cols)
CreateDependencyGraph ==
    /\ pc = "create_dependency_graph"
    /\ LET g == create_dependency_graph(cols) IN
       IF IsRaise(g)
       THEN /\ raised' = g.raised
            /\ pc' = "raised"
            /\ UNCHANGED graph
       ELSE /\ graph' = g
            /\ pc' = "build_sql"
            /\ UNCHANGED raised
    /\ UNCHANGED <<cols, dtypes, table_name, priorities, sql_expressions, script,
                   data, output>>

\* main, line 25: sql_expressions = build_sql(cols, graph, dtypes, table_name);
\* priorities is the local of build_sql, set once the cycle check has passed
BuildSql ==
    /\ pc = "build_sql"
    /\ LET r == build_sql(cols, graph, dtypes, table_name) IN
       IF IsRaise(r)
       THEN /\ raised' = r.raised
            /\ pc' = "raised"
            /\ priorities' = IF r.raised = CyclicError THEN priorities
                             ELSE Priorities(cols, graph)
            /\ UNCHANGED sql_expressions
       ELSE /\ sql_expressions' = r
            /\ priorities' = Priorities(cols, graph)
            /\ pc' = "assemble"
            /\ UNCHANGED raised
    /\ UNCHANGED <<cols, dtypes, table_name, graph, script, data, output>>

\* main, lines 26-33: the script is put together and returned
Main ==
    /\ pc = "assemble"
    /\ script' = Assemble(sql_expressions)
    /\ pc' = "done"
    /\ UNCHANGED <<cols, dtypes, table_name, graph, priorities, sql_expressions, raised,
                   data, output>>

Next == CreateDependencyGraph \/ BuildSql \/ Main

Spec == Init /\ [][Next]_vars

(***************************************************************************)
(* The ddl-generator as a state machine: main(data) returns the SqlNode or *)
(* raises.                                                                 *)
(***************************************************************************)
InitGen ==
    /\ data \in [ast : AstInputs, columns : ColumnsInputs]
    /\ output = NoOutput
    /\ pc = "ddl_generator"
    /\ raised = None
    /\ cols = <<>>
    /\ dtypes = DtypesInput
    /\ table_name = "test_table"
    /\ graph = Graph(<<>>)
    /\ priorities = <<>>
    /\ sql_expressions = NoSql
    /\ script = <<>>

\* the translated tree is written over data["ast"]
DdlGeneratorMainInPlace ==
    /\ pc = "ddl_generator"
    /\ LET r == ddl_generator_main(data) IN
       IF IsRaise(r)
       THEN /\ raised' = r.raised
            /\ pc' = "raised"
            /\ UNCHANGED <<output, data>>
       ELSE /\ output' = r
            /\ data' = [data EXCEPT !.ast = r]
            /\ pc' = "returned"
            /\ UNCHANGED raised
    /\ UNCHANGED <<cols, dtypes, table_name, graph, priorities, sql_expressions, script>>

\* main, lines 41-44: return MAPS[ast["type"]](ast, columns)
DdlGeneratorMain ==
    /\ pc = "ddl_generator"
    /\ LET r == ddl_generator_main(data) IN
       IF IsRaise(r)
       THEN /\ raised' = r.raised
            /\ pc' = "raised"
            /\ UNCHANGED output
       ELSE /\ output' = r
            /\ pc' = "returned"
            /\ UNCHANGED raised
    /\ UNCHANGED <<data, cols, dtypes, table_name, graph, priorities, sql_expressions,
                   script>>

NextGen == DdlGeneratorMain

SpecGen == InitGen /\ [][NextGen]_vars

(***************************************************************************)
(* The two programs side by side: a behaviour is one run of the            *)
(* sql-builder main or one call of the ddl-generator main.                 *)
(***************************************************************************)
InitBoth == Init \/ InitGen

NextBoth == Next \/ NextGen

SpecBoth == InitBoth /\ [][NextBoth]_vars

(***************************************************************************)
(* Column Addressing as a state machine: the functions of utils.py applied *)
(* to a column, to an index and to a pair of columns.  A column is turned  *)
(* into its index and the index back into a column, an index into its      *)
(* column and back; output is the list of the values returned so far.      *)
(***************************************************************************)
\* the upper-case columns of one to MaxColumnLen letters: "A" to "ZZ"
RECURSIVE ColumnsOfLen(_)
ColumnsOfLen(n) ==
    IF n = 0 THEN {<<>>}
    ELSE {<<UpperLetters[k]>> \o c : k \in 1..26, c \in ColumnsOfLen(n - 1)}

UpperColumns == UNION {ColumnsOfLen(n) : n \in 1..MaxColumnLen}

\* columns written in lower or mixed case
LowerColumns == {<<"a">>, <<"z">>, <<"a", "a">>, <<"a", "B">>}

\* the ends of the ranges: around the steps from Z to AA and from AZ to BA
RangeColumns ==
    {<<"A">>, <<"B">>, <<"C">>, <<"E">>, <<"X">>, <<"Y">>, <<"Z">>, <<"A", "A">>,
     <<"A", "B">>, <<"A", "Z">>, <<"B", "A">>, <<"Z", "Z">>, <<"a">>, <<"y">>}

AddressingInputs ==
    {[col |-> c] : c \in UpperColumns \cup LowerColumns}
    \cup {[index |-> i] : i \in 0..MaxIndex}
    \cup {[start |-> c, end |-> d] : c, d \in RangeColumns}

InitAddr ==
    /\ data \in AddressingInputs
    /\ output = <<>>
    /\ pc = IF "col" \in DOMAIN data THEN "excel_col_to_index"
            ELSE IF "index" \in DOMAIN data THEN "index_to_excel_col"
            ELSE "get_column_range"
    /\ raised = None
    /\ cols = <<>>
    /\ dtypes = DtypesInput
    /\ table_name = "test_table"
    /\ graph = Graph(<<>>)
    /\ priorities = <<>>
    /\ sql_expressions = NoSql
    /\ script = <<>>

\* excel_col_to_index of the column given, or of the column just returned
ExcelColToIndex ==
    /\ pc = "excel_col_to_index"
    /\ output' = Append(output, excel_col_to_index(IF output = <<>> THEN data.col
                                                   ELSE output[Len(output)]))
    /\ pc' = IF output = <<>> THEN "index_to_excel_col" ELSE "returned"
    /\ UNCHANGED <<data, raised, cols, dtypes, table_name, graph, priorities,
                   sql_expressions, script>>

\* index_to_excel_col of the index given, or of the index just returned
IndexToExcelCol ==
    /\ pc = "index_to_excel_col"
    /\ output' = Append(output, index_to_excel_col(IF output = <<>> THEN data.index
                                                   ELSE output[Len(output)]))
    /\ pc' = IF output = <<>> THEN "excel_col_to_index" ELSE "returned"
    /\ UNCHANGED <<data, raised, cols, dtypes, table_name, graph, priorities,
                   sql_expressions, script>>

\* get_column_range(start, end)
GetColumnRange ==
    /\ pc = "get_column_range"
    /\ output' = <<get_column_range(data.start, data.end)>>
    /\ pc' = "returned"
    /\ UNCHANGED <<data, raised, cols, dtypes, table_name, graph, priorities,
                   sql_expressions, script>>

NextAddr == ExcelColToIndex \/ IndexToExcelCol \/ GetColumnRange

SpecAddr == InitAddr /\ [][NextAddr]_vars

(***************************************************************************)
(* Reading the results back.                                               *)
(***************************************************************************)
\* create_dependency_graph has returned a graph
GraphReturned ==
    \/ pc \in {"build_sql", "assemble", "done"}
    \/ pc = "raised" /\ raised \in {CyclicError, "KeyError: 'sql'"}

\* build_sql has returned its dict
BuildReturned == pc \in {"assemble", "done"}

RECURSIVE SplitLines(_)
\* text.split("\n")
SplitLines(text) ==
    IF \A k \in DOMAIN text : text[k] # "\n" THEN <<text>>
    ELSE LET k == CHOOSE k \in DOMAIN text :
                      text[k] = "\n" /\ \A j \in 1..(k - 1) : text[j] # "\n"
         IN <<SubSeq(text, 1, k - 1)>> \o SplitLines(SubSeq(text, k + 1, Len(text)))

IsAlter(statement) == Len(statement) >= 4 /\ statement[1] = "ALTER TABLE "

\* the column an ALTER TABLE statement adds
AlterColumn(statement) == statement[4]

\* the columns a CREATE TABLE statement lists
CreateColumns(statement) ==
    {statement[k] : k \in {j \in 4..Len(statement) : (j - 4) % 5 = 0}}

RECURSIVE RefsOf(_)
\* the columns the expression of a SqlNode reads
RefsOf(x) ==
    CASE x.type = "cell" -> IF x.error = None THEN {x.column} ELSE {}
      [] x.type \in {"cell_range", "cell-range"} ->
            IF x.error = None THEN Elems(x.columns) ELSE {}
      [] x.type = "function" -> UNION {RefsOf(a) : a \in Elems(x.arguments)}
      [] x.type = "binary-expression" -> RefsOf(x.left) \cup RefsOf(x.right)
      [] OTHER -> {}

RECURSIVE Closure(_)
\* the transitive closure of a finite relation
Closure(R) ==
    LET R2 == R \cup {g \in {e[1] : e \in R} \X {e[2] : e \in R} :
                         \E e, f \in R : e[2] = f[1] /\ g = <<e[1], f[2]>>}
    IN IF R2 = R THEN R ELSE Closure(R2)

\* some vertex reaches itself along one or more edges
HasDirectedCycle(g) == \E e \in Closure(Elems(g.es)) : e[1] = e[2]

Level(col) == priorities[CHOOSE i \in DOMAIN priorities : priorities[i][1] = col][2]

(***************************************************************************)
(* C1: in the script main returns, every ALTER TABLE statement adding a    *)
(* column c comes after the definition of every column r that c's          *)
(* expression references: r is listed in the CREATE TABLE statement or     *)
(* added by an earlier ALTER TABLE statement.                              *)
(***************************************************************************)
C1_NoColumnBeforeItsReferences ==
    pc = "done" =>
        LET lines == SplitLines(script) IN
        \A p \in DOMAIN lines :
            IsAlter(lines[p]) =>
                \A r \in RefsOf(Lookup(cols, AlterColumn(lines[p]))) :
                    \/ r \in CreateColumns(lines[1])
                    \/ \E q \in 1..(p - 1) : IsAlter(lines[q]) /\ AlterColumn(lines[q]) = r

(***************************************************************************)
(* C2: build_sql raises the cyclic-dependency error exactly when the graph *)
(* has a directed cycle (a self-reference included), and then nothing is   *)
(* returned: no CREATE TABLE text, no ALTER TABLE list, no script.         *)
(***************************************************************************)
C2_CyclicErrorIffCycle ==
    GraphReturned /\ pc # "build_sql" =>
        /\ (raised = CyclicError) <=> HasDirectedCycle(graph)
        /\ raised = CyclicError => sql_expressions = NoSql /\ script = <<>>

\* the two-column cycle col1 -> col2 -> col1 beside a third, constant column
C2_Witness ==
    /\ pc = "raised" /\ raised = CyclicError
    /\ {<<"col1", "col2">>, <<"col2", "col1">>} \subseteq Elems(graph.es)
    /\ \E i \in DOMAIN cols : cols[i].name = "col3" /\ cols[i].node.type = "number"

(***************************************************************************)
(* C3: the level build_sql assigns to a column is the number of distinct   *)
(* columns the column directly references.                                 *)
(***************************************************************************)
C3_LevelIsDistinctOutDegree ==
    priorities # <<>> =>
        \A i \in DOMAIN priorities :
            priorities[i][2] =
                Cardinality({e[2] : e \in {f \in Elems(graph.es) : f[1] = priorities[i][1]}})

(***************************************************************************)
(* C4: in the script main returns the ALTER TABLE statements are in        *)
(* ascending level order: the statement of a column of lower level comes   *)
(* before the statement of a column of higher level.                       *)
(***************************************************************************)
C4_AlterStatementsAscendingLevel ==
    pc = "done" =>
        LET lines == SplitLines(script) IN
        \A p, q \in DOMAIN lines :
            /\ IsAlter(lines[p]) /\ IsAlter(lines[q])
            /\ Level(AlterColumn(lines[p])) < Level(AlterColumn(lines[q]))
            => p < q

(***************************************************************************)
(* C5: within the list of one level greater than 0, build_sql puts the     *)
(* ALTER TABLE statements in the order of the columns in the input cols.   *)
(***************************************************************************)
C5_InputOrderWithinLevel ==
    BuildReturned =>
        \A i, j \in DOMAIN cols :
            /\ i < j
            /\ Level(cols[i].name) > 0
            /\ Level(cols[i].name) = Level(cols[j].name)
            => LET list == sql_expressions.levels[Level(cols[i].name)] IN
               \E p, q \in DOMAIN list :
                   /\ p < q
                   /\ AlterColumn(list[p]) = cols[i].name
                   /\ AlterColumn(list[q]) = cols[j].name

\* two columns of level 1 and one of level 0 have gone through build_sql
C5_Witness ==
    /\ pc = "done"
    /\ \E i, j \in DOMAIN cols :
           i < j /\ Level(cols[i].name) = 1 /\ Level(cols[j].name) = 1
    /\ Len(sql_expressions.levels[1]) = 2

RECURSIVE ColumnList(_, _)
\* "col type extra" of every column of the list, joined by ", "
ColumnList(names, d) ==
    IF names = <<>> THEN <<>>
    ELSE <<Head(names), " ", d[Head(names)].type,
           IF "extra" \in DOMAIN d[Head(names)] THEN d[Head(names)].extra ELSE "">>
         \o (IF Len(names) = 1 THEN <<>> ELSE <<", ">> \o ColumnList(Tail(names), d))

\* the names of the columns of level 0, in input order
Level0Names ==
    LET idx == SelectSeq([i \in DOMAIN cols |-> i], LAMBDA i : Level(cols[i].name) = 0)
    IN [k \in DOMAIN idx |-> cols[idx[k]].name]

(***************************************************************************)
(* C6: entry 0 of the result of build_sql is one complete statement        *)
(* CREATE TABLE IF NOT EXISTS <table> (...); that lists exactly the        *)
(* columns of level 0, each with its type and extra clause, in input       *)
(* order, comma-separated, and ends with ");" - whatever the number of     *)
(* columns of level 0.                                                     *)
(***************************************************************************)
C6_CreateTableComplete ==
    BuildReturned =>
        sql_expressions.create =
            <<"CREATE TABLE IF NOT EXISTS ", table_name, " (">>
            \o ColumnList(Level0Names, dtypes) \o <<");">>

(***************************************************************************)
(* C7: for every column c of level > 0 build_sql emits                     *)
(* ALTER TABLE <table> ADD COLUMN <c> <type><extra> GENERATED ALWAYS AS    *)
(* (<expr>) STORED; with the sql of c's node enclosed in parentheses.      *)
(***************************************************************************)
C7_GeneratedExpressionInParentheses ==
    BuildReturned =>
        \A i \in DOMAIN cols :
            Level(cols[i].name) > 0 =>
                \E p \in DOMAIN sql_expressions.levels[Level(cols[i].name)] :
                    sql_expressions.levels[Level(cols[i].name)][p] =
                        <<"ALTER TABLE ", table_name, " ADD COLUMN ">>
                        \o ColumnList(<<cols[i].name>>, dtypes)
                        \o <<" ", "GENERATED ALWAYS AS ", "(">> \o cols[i].node.sql
                        \o <<")", " STORED;">>

\* the extraction result of column i, read only once the graph is returned
Extraction(i) == MAPS_DTYPES(cols[i].node)

OutEdges(g, col) == {k \in DOMAIN g.es : g.es[k][1] = col}

(***************************************************************************)
(* C8: in the graph create_dependency_graph returns, a column whose        *)
(* extraction result is constant (a top-level number, logical or text      *)
(* node) or carries an error has no outgoing edge, and the other columns   *)
(* are still processed: each of them has an edge to every column of its    *)
(* extraction result.                                                      *)
(***************************************************************************)
C8_ConstantColumnsAddNoEdge ==
    GraphReturned =>
        \A i \in DOMAIN cols :
            /\ cols[i].node.type \in {"number", "logical", "text"}
                  => Extraction(i).constants
            /\ IF Extraction(i).constants \/ Extraction(i).error # None
               THEN OutEdges(graph, cols[i].name) = {}
               ELSE \A r \in Elems(Extraction(i).columns) :
                        <<cols[i].name, r>> \in Elems(graph.es)

\* a constant column is followed by a column that refers to it
C8_Witness ==
    /\ pc = "build_sql"
    /\ Len(cols) >= 2
    /\ cols[1].node.type = "number"
    /\ cols[2].node.type = "cell"
    /\ <<cols[2].name, cols[1].name>> \in Elems(graph.es)

(***************************************************************************)
(* C9: the extractor applied to a Cell node returns the node's column,     *)
(* constants false and no error when the node's error is null, and a       *)
(* non-null error when the node carries an error, so that an errored Cell  *)
(* column is skipped and the graph is returned.                            *)
(***************************************************************************)
C9_CellErrorPropagated ==
    pc # "create_dependency_graph" =>
        \A i \in DOMAIN cols :
            cols[i].node.type = "cell" =>
                IF cols[i].node.error = None
                THEN search_columns_cell(cols[i].node)
                         = ColReferences(<<cols[i].node.column>>, None, FALSE)
                ELSE search_columns_cell(cols[i].node).error # None

RECURSIVE HasErroredRef(_)
\* a Cell or CellRange node with an error, at any depth
HasErroredRef(x) ==
    CASE x.type \in {"cell", "cell_range", "cell-range"} -> x.error # None
      [] x.type = "function" -> \E k \in DOMAIN x.arguments : HasErroredRef(x.arguments[k])
      [] x.type = "binary-expression" -> HasErroredRef(x.left) \/ HasErroredRef(x.right)
      [] OTHER -> FALSE

RECURSIVE HasTag(_, _)
HasTag(x, tag) ==
    \/ x.type = tag
    \/ x.type = "function" /\ \E k \in DOMAIN x.arguments : HasTag(x.arguments[k], tag)
    \/ x.type = "binary-expression" /\ (HasTag(x.left, tag) \/ HasTag(x.right, tag))

(***************************************************************************)
(* C10: an errored Cell or CellRange reference, at any depth, does not     *)
(* block graph construction: when every other reference names a key of     *)
(* cols, create_dependency_graph returns a graph, and the errored          *)
(* reference has produced no edge.                                         *)
(***************************************************************************)
C10_ErroredReferenceNeverBlocks ==
    /\ pc # "create_dependency_graph"
    /\ \E i \in DOMAIN cols : HasErroredRef(cols[i].node)
    /\ \A i \in DOMAIN cols :
           /\ ~HasTag(cols[i].node, "cell-range")
           /\ RefsOf(cols[i].node) \subseteq Elems(Keys(cols))
    => /\ GraphReturned
       /\ \A k \in DOMAIN graph.es : graph.es[k][2] # ""

(***************************************************************************)
(* C11: the Dependency Extractor accepts every CellRange SqlNode that      *)
(* Expression Codegen produces (tag "cell-range"), at top level or nested  *)
(* in a function or binary expression: the dispatch does not fail on the   *)
(* tag, and for the range itself the result is its columns field with      *)
(* constants false.                                                        *)
(***************************************************************************)
C11_ExtractorAcceptsCodegenCellRange ==
    pc = "returned" /\ HasTag(output, "cell-range") =>
        LET cols_refs == MAPS_DTYPES(output) IN
        /\ ~IsRaise(cols_refs)
        /\ output.type = "cell-range" =>
               /\ Elems(cols_refs.columns) = Elems(output.columns)
               /\ ~cols_refs.constants

RECURSIVE LeafColumns(_)
\* the column names of all Cell and CellRange leaves of a SqlNode
LeafColumns(x) ==
    CASE x.type = "cell" -> {x.column}
      [] x.type \in {"cell_range", "cell-range"} -> Elems(x.columns)
      [] x.type = "function" -> UNION {LeafColumns(a) : a \in Elems(x.arguments)}
      [] x.type = "binary-expression" -> LeafColumns(x.left) \cup LeafColumns(x.right)
      [] OTHER -> {}

(***************************************************************************)
(* C12: for a FunctionCall or BinaryExpression column the extractor        *)
(* returns, with constants false and without duplicates, the union of the  *)
(* results of its arguments (of left and right), to any depth: the set of  *)
(* the column names of all Cell and CellRange leaves of the subtree.       *)
(***************************************************************************)
C12_UnionOfLeafColumns ==
    pc # "create_dependency_graph" /\ pc # "ddl_generator" =>
        \A i \in DOMAIN cols :
            cols[i].node.type \in {"function", "binary-expression"} =>
                /\ ~IsRaise(Extraction(i))
                /\ Elems(Extraction(i).columns) = LeafColumns(cols[i].node)
                /\ Len(Extraction(i).columns) = Cardinality(LeafColumns(cols[i].node))
                /\ ~Extraction(i).constants

C14_BinaryOperandsParenthesized ==
    /\ pc # "ddl_generator"
    /\ data.ast.type = "binary-expression"
    /\ ~IsRaise(MAPS(data.ast.left, data.columns))
    /\ ~IsRaise(MAPS(data.ast.right, data.columns))
    => /\ pc = "returned"
       /\ output.sql = <<"(">> \o output.left.sql \o <<") ", data.ast.operator, " (">>
                       \o output.right.sql \o <<")">>

(***************************************************************************)
(* C15: cell_maps on a Cell node never raises for a lookup failure.  cell  *)
(* is key without any "$"; when the letters of key are mapped, sql and     *)
(* column are the mapped name and error is null, otherwise sql and column  *)
(* are "" and error is non-null; the result has the cell, column and sql   *)
(* of the key written without "$".                                         *)
(***************************************************************************)
C15_CellMapsNeverRaises ==
    pc # "ddl_generator" /\ data.ast.type = "cell" =>
        LET stripped == SelectSeq(data.ast.key, LAMBDA ch : ch # "$")
            letters == SelectSeq(data.ast.key, isalpha)
            plain == cell_maps([data.ast EXCEPT !.key = stripped], data.columns)
        IN /\ pc = "returned"
           /\ output.cell = stripped
           /\ IF letters \in DOMAIN data.columns
              THEN /\ output.column = data.columns[letters]
                   /\ output.sql = <<data.columns[letters]>>
                   /\ output.error = None
              ELSE /\ output.column = ""
                   /\ output.sql = <<"">>
                   /\ output.error # None
           /\ output.cell = plain.cell
           /\ output.column = plain.column
           /\ output.sql = plain.sql

\* $A$1 has been translated under a mapping without the letter A
C15_Witness ==
    /\ pc = "returned"
    /\ data.ast.type = "cell"
    /\ data.ast.key = <<"$", "A", "$", "1">>
    /\ <<"A">> \notin DOMAIN data.columns
    /\ output.cell = <<"A", "1">>
    /\ output.sql = <<"">>
    /\ output.error # None

\* the columns of a sheet in ascending order: A to Z, then AA to AZ
ExcelColumns ==
    [k \in 1..(2 * Len(UpperLetters)) |->
        IF k <= Len(UpperLetters) THEN <<UpperLetters[k]>>
        ELSE <<"A", UpperLetters[k - Len(UpperLetters)]>>]

\* the columns from the column of cell address left to that of right
SpanOf(left, right) ==
    LET first == CHOOSE k \in DOMAIN ExcelColumns :
                     ExcelColumns[k] = upper(SelectSeq(left, isalpha))
        last == CHOOSE k \in DOMAIN ExcelColumns :
                    ExcelColumns[k] = upper(SelectSeq(right, isalpha))
    IN SubSeq(ExcelColumns, first, last)

C17_UnsupportedFunctionNotFatal ==
    pc # "ddl_generator" /\ data.ast.type = "function" =>
        LET args_raw == IF "arguments" \in DOMAIN data.ast THEN data.ast.arguments
                        ELSE <<>>
            args == [k \in DOMAIN args_raw |-> MAPS(args_raw[k], data.columns)]
            entry == function_maps([data.ast EXCEPT !.name = upper(@)], data.columns)
        IN IF upper(data.ast.name) \notin FUNCTION_SQL_MAP
           THEN IF \A k \in DOMAIN args : ~IsRaise(args[k])
                THEN /\ pc = "returned"
                     /\ Len(output.arguments) = Len(args_raw)
                     /\ \A k \in DOMAIN args : output.arguments[k] = args[k]
                     /\ output.sql = <<"UNSUPPORTED_FUNCTION(">> \o data.ast.name \o <<")">>
                ELSE pc = "raised"
           ELSE IF IsRaise(entry)
                THEN pc = "raised" /\ raised = entry.raised
                ELSE /\ pc = "returned"
                     /\ output.sql = entry.sql
                     /\ output.sql # <<"UNSUPPORTED_FUNCTION(">> \o data.ast.name \o <<")">>

\* vLookup of two arguments has been translated
C17_Witness ==
    /\ pc = "returned"
    /\ data.ast.type = "function"
    /\ data.ast.name = <<"v", "L", "o", "o", "k", "u", "p">>
    /\ Len(output.arguments) = 2
    /\ output.sql = <<"UNSUPPORTED_FUNCTION(", "v", "L", "o", "o", "k", "u", "p", ")">>

(***************************************************************************)
(* C18: SUM of one cell range with every letter mapped translates to the   *)
(* mapped names of the range, in ascending column-letter order, joined by  *)
(* " + ", whatever the row numbers of the two endpoints.                   *)
(***************************************************************************)
C18_SumJoinsRangeColumns ==
    /\ pc # "ddl_generator"
    /\ data.ast.type = "function"
    /\ data.ast.name = <<"S", "U", "M">>
    /\ "arguments" \in DOMAIN data.ast
    /\ Len(data.ast.arguments) = 1
    /\ data.ast.arguments[1].type = "cell-range"
    /\ \A c \in Elems(SpanOf(data.ast.arguments[1].left.key,
                             data.ast.arguments[1].right.key)) : c \in DOMAIN data.columns
    => LET span == SpanOf(data.ast.arguments[1].left.key, data.ast.arguments[1].right.key)
       IN /\ pc = "returned"
          /\ Len(output.sql) = IF span = <<>> THEN 0 ELSE 2 * Len(span) - 1
          /\ \A k \in DOMAIN span : output.sql[2 * k - 1] = data.columns[span[k]]
          /\ \A k \in 1..(Len(span) - 1) : output.sql[2 * k] = " + "

\* SUM(A7:C1) with {A: col1, B: col2, C: col3}
C18_Witness ==
    /\ pc = "returned"
    /\ data.ast.type = "function"
    /\ data.ast.name = <<"S", "U", "M">>
    /\ Len(data.ast.arguments) = 1
    /\ data.ast.arguments[1].type = "cell-range"
    /\ data.ast.arguments[1].left.key = <<"A", "7">>
    /\ data.ast.arguments[1].right.key = <<"C", "1">>
    /\ output.sql = <<"col1", " + ", "col2", " + ", "col3">>

(***************************************************************************)
(* C19: IF(cond, whenTrue, whenFalse) translates, for every three          *)
(* translated arguments, nested functions included, to "CASE WHEN " +      *)
(* cond.sql + " THEN " + whenTrue.sql + " ELSE " + whenFalse.sql + " END". *)
(***************************************************************************)
C19_IfIsCaseWhen ==
    /\ pc # "ddl_generator"
    /\ data.ast.type = "function"
    /\ data.ast.name = <<"I", "F">>
    /\ "arguments" \in DOMAIN data.ast
    /\ Len(data.ast.arguments) = 3
    /\ \A k \in DOMAIN data.ast.arguments :
           ~IsRaise(MAPS(data.ast.arguments[k], data.columns))
    => /\ pc = "returned"
       /\ output.sql = <<"CASE WHEN ">> \o output.arguments[1].sql
                       \o <<" THEN ">> \o output.arguments[2].sql
                       \o <<" ELSE ">> \o output.arguments[3].sql \o <<" END">>

\* the other operands or arguments of a node are translated by the dispatcher
OthersTranslate(asts) ==
    \A k \in DOMAIN asts :
        asts[k].type # "text" =>
            /\ ~IsRaise(MAPS(asts[k], data.columns))
            /\ "sql" \in DOMAIN MAPS(asts[k], data.columns)

(***************************************************************************)
(* C20: a text node translates to a node of type text whose sql is the     *)
(* value in single quotes, and the dispatcher accepts a text node at the   *)
(* root, as an operand of a binary expression and as an argument of a      *)
(* function.                                                               *)
(***************************************************************************)
C20_TextLiteralQuoted ==
    pc # "ddl_generator" =>
        /\ data.ast.type = "text" =>
               /\ pc = "returned"
               /\ output.type = "text"
               /\ output.sql = <<"'", data.ast.value, "'">>
        /\ /\ data.ast.type = "binary-expression"
           /\ "text" \in {data.ast.left.type, data.ast.right.type}
           /\ OthersTranslate(<<data.ast.left, data.ast.right>>)
           => pc = "returned"
        /\ /\ data.ast.type = "function"
           /\ "arguments" \in DOMAIN data.ast
           /\ \E k \in DOMAIN data.ast.arguments : data.ast.arguments[k].type = "text"
           /\ upper(data.ast.name) \notin FUNCTION_SQL_MAP
           /\ OthersTranslate(data.ast.arguments)
           => pc = "returned"

RECURSIVE Subtrees(_)
\* the nodes of an input tree, the root included
Subtrees(ast) ==
    {ast} \cup
    CASE ast.type = "binary-expression" -> Subtrees(ast.left) \cup Subtrees(ast.right)
      [] ast.type = "function" /\ "arguments" \in DOMAIN ast ->
             UNION {Subtrees(ast.arguments[k]) : k \in DOMAIN ast.arguments}
      [] ast.type = "cell-range" -> {ast.left, ast.right}
      [] OTHER -> {}

RECURSIVE HasUnhandledTag(_)
\* a node of the tree carries a tag that the code reaching it cannot handle:
\* no key of MAPS where the node is dispatched, not "cell" at a range's ends
HasUnhandledTag(ast) ==
    CASE ast.type = "binary-expression" ->
             HasUnhandledTag(ast.left) \/ HasUnhandledTag(ast.right)
      [] ast.type = "function" ->
             /\ "arguments" \in DOMAIN ast
             /\ \E k \in DOMAIN ast.arguments : HasUnhandledTag(ast.arguments[k])
      [] ast.type = "cell-range" -> ast.left.type # "cell" \/ ast.right.type # "cell"
      [] ast.type \in {"cell", "number", "logical"} -> FALSE
      [] OTHER -> TRUE

UnknownTypeFailures ==
    {"KeyError: no such type", "ValueError: AST must be of type 'cell'"}

(***************************************************************************)
(* C21: a translation call whose tree holds a node of an unhandled tag, at *)
(* the root or at any depth, ends raised and returns no node; the failure  *)
(* is the one of the unknown tag unless a subtree with handled tags only,  *)
(* translated before it, fails by itself.                                  *)
(***************************************************************************)
C21_UnknownTagFailsTheCall ==
    pc # "ddl_generator" /\ HasUnhandledTag(data.ast) =>
        /\ pc = "raised"
        /\ output = NoOutput
        /\ \/ raised \in UnknownTypeFailures
           \/ \E sub \in Subtrees(data.ast) :
                  ~HasUnhandledTag(sub) /\ IsRaise(MAPS(sub, data.columns))

\* the unknown tag two levels below the root, beside a cell that resolves
C21_Witness ==
    /\ pc = "raised"
    /\ raised = "KeyError: no such type"
    /\ data.ast.type = "binary-expression"
    /\ data.ast.left.type = "cell"
    /\ ~IsRaise(MAPS(data.ast.left, data.columns))
    /\ data.ast.right.type = "binary-expression"
    /\ data.ast.right.left.type = "unknown"

\* s is the word, each letter in either case
EqualIgnoringCase(s, word) ==
    /\ Len(s) = Len(word)
    /\ \A k \in 1..Len(s) : s[k] \in {word[k], UpperChar(word[k])}

\* the boolean b, or a string that is its word in any letter case
IsLogicalInput(value, b, word) ==
    IF "bool" \in DOMAIN value THEN value.bool = b
    ELSE EqualIgnoringCase(value.str, word)

LettersOf(ast) == get_column_from_cell(replace(ast.key, "$"))

RECURSIVE CellLetters(_)
\* the column letters of the Cell nodes that are operands or arguments
CellLetters(ast) ==
    CASE ast.type = "cell" -> {LettersOf(ast)}
      [] ast.type = "binary-expression" -> CellLetters(ast.left) \cup CellLetters(ast.right)
      [] ast.type = "function" /\ "arguments" \in DOMAIN ast ->
             UNION {CellLetters(ast.arguments[k]) : k \in DOMAIN ast.arguments}
      [] OTHER -> {}

\* the mapping extended by a name for every letter of a Cell node of the tree
Resolved(columns, ast) ==
    [c \in DOMAIN columns \cup CellLetters(ast) |->
        IF c \in DOMAIN columns THEN columns[c] ELSE "col0"]

RECURSIVE EmptyFragments(_, _, _)
\* node is the translation of ast in which a Cell of an unmapped letter has
\* error set and sql "", a binary expression is composed of the sql of its
\* operands, and every operand and argument is its own translation
EmptyFragments(ast, node, columns) ==
    CASE ast.type = "cell" ->
             IF LettersOf(ast) \in DOMAIN columns
             THEN node.error = None /\ node.sql = <<columns[LettersOf(ast)]>>
             ELSE node.error # None /\ node.sql = <<"">> /\ node.column = ""
      [] ast.type = "binary-expression" ->
             /\ node.sql = <<"(">> \o node.left.sql \o <<") ", ast.operator, " (">>
                           \o node.right.sql \o <<")">>
             /\ node.left = MAPS(ast.left, columns)
             /\ node.right = MAPS(ast.right, columns)
             /\ EmptyFragments(ast.left, node.left, columns)
             /\ EmptyFragments(ast.right, node.right, columns)
      [] ast.type = "function" /\ "arguments" \in DOMAIN ast ->
             /\ Len(node.arguments) = Len(ast.arguments)
             /\ \A k \in DOMAIN ast.arguments :
                    /\ node.arguments[k] = MAPS(ast.arguments[k], columns)
                    /\ EmptyFragments(ast.arguments[k], node.arguments[k], columns)
      [] OTHER -> TRUE

(***************************************************************************)
(* C23: a binary expression or function call that holds a Cell of an       *)
(* unmapped column letter raises only if it also raises with that letter   *)
(* mapped; when it returns, the Cell node has error set and sql "", every  *)
(* binary expression is composed with that empty fragment and every other  *)
(* operand and argument is its own translation.                            *)
(***************************************************************************)
C23_UnmappedCellNotFatal ==
    /\ pc # "ddl_generator"
    /\ data.ast.type \in {"binary-expression", "function"}
    /\ CellLetters(data.ast) \ DOMAIN data.columns # {}
    => /\ pc = "raised" <=> IsRaise(MAPS(data.ast, Resolved(data.columns, data.ast)))
       /\ pc = "returned" => EmptyFragments(data.ast, output, data.columns)

\* F1 + 5 with F unmapped has been translated to "() + (5)"
C23_Witness ==
    /\ pc = "returned"
    /\ data.ast.type = "binary-expression"
    /\ data.ast.left.type = "cell"
    /\ LettersOf(data.ast.left) \notin DOMAIN data.columns
    /\ output.left.error # None
    /\ output.right.type = "number"
    /\ output.sql = <<"(", "", ") ", "+", " (", "5", ")">>

RECURSIVE NextColumn(_)
\* the column after c on a sheet: the last letter moves on by one, and Z
\* goes back to A while the letters before it move on ("Z" -> "AA")
NextColumn(c) ==
    IF c = <<>> THEN <<"A">>
    ELSE LET front == SubSeq(c, 1, Len(c) - 1)
             last == c[Len(c)]
         IN IF last = "Z" THEN NextColumn(front) \o <<"A">>
            ELSE front \o <<UpperLetters[Ord(last) + 1]>>

IsUpperColumn(c) == c # <<>> /\ \A k \in DOMAIN c : c[k] \in Elems(UpperLetters)

\* a is at or before b on a sheet: shorter first, then by the first letter
\* that differs
ColumnLeq(a, b) ==
    \/ Len(a) < Len(b)
    \/ /\ Len(a) = Len(b)
       /\ \/ a = b
          \/ \E k \in DOMAIN a :
                 /\ Ord(a[k]) < Ord(b[k])
                 /\ \A j \in 1..(k - 1) : a[j] = b[j]

(***************************************************************************)
(* C24: a column of upper-case letters, "A" to "ZZ", turned into its index *)
(* and back is the same column, and an index from 1 to 702 turned into its *)
(* column and back is the same index.  A is 1, Z is 26, AA is 27; the      *)
(* column of an index is made of the letters A to Z only, one letter up to *)
(* 26, and it is the column after the column of the index before.          *)
(***************************************************************************)
C24_ColumnIndexRoundTrip ==
    pc = "returned" =>
        /\ "col" \in DOMAIN data /\ IsUpperColumn(data.col) =>
               /\ output[2] = data.col
               /\ output[1] >= 1
               /\ data.col = <<"A">> => output[1] = 1
               /\ data.col = <<"Z">> => output[1] = 26
               /\ data.col = <<"A", "A">> => output[1] = 27
        /\ "index" \in DOMAIN data /\ data.index >= 1 =>
               /\ output[2] = data.index
               /\ IsUpperColumn(output[1])
               /\ Len(output[1]) = 1 <=> data.index <= 26
               /\ output[1] = NextColumn(index_to_excel_col(data.index - 1))
               /\ data.index = 1 => output[1] = <<"A">>
               /\ data.index = 26 => output[1] = <<"Z">>
               /\ data.index = 27 => output[1] = <<"A", "A">>

\* "AZ" has given 52, and 52 has given "AZ" back
C24_Witness ==
    /\ pc = "returned"
    /\ "col" \in DOMAIN data
    /\ data.col = <<"A", "Z">>
    /\ output = <<52, <<"A", "Z">>>>

(***************************************************************************)
(* C25: get_column_range(start, end) with start at or before end returns   *)
(* index(end) - index(start) + 1 columns, the first is start, the last is  *)
(* end and each is the column after the one before it ("Y" to "AA" gives   *)
(* Y, Z, AA); with end before start it returns the empty list.             *)
(***************************************************************************)
C25_ColumnRangeInclusive ==
    pc = "returned" /\ "start" \in DOMAIN data =>
        LET range == output[1]
            start == upper(data.start)
            end == upper(data.end)
        IN IF ColumnLeq(start, end)
           THEN /\ Len(range) = excel_col_to_index(end) - excel_col_to_index(start) + 1
                /\ range[1] = start
                /\ range[Len(range)] = end
                /\ \A k \in 1..(Len(range) - 1) : range[k + 1] = NextColumn(range[k])
                /\ data.start = <<"Y">> /\ data.end = <<"A", "A">> =>
                       range = <<<<"Y">>, <<"Z">>, <<"A", "A">>>>
           ELSE range = <<>>

\* the range from Y to AA has been returned
C25_Witness ==
    /\ pc = "returned"
    /\ "start" \in DOMAIN data
    /\ data.start = <<"Y">>
    /\ data.end = <<"A", "A">>
    /\ output[1] = <<<<"Y">>, <<"Z">>, <<"A", "A">>>>

\* the places <<level, k>> of the ALTER TABLE statements build_sql returned
AlterPlaces(sql) ==
    UNION {{<<level, k>> : k \in DOMAIN sql.levels[level]} : level \in DOMAIN sql.levels}

(***************************************************************************)
(* C26: the script main returns is, line by line, the CREATE TABLE         *)
(* statement, an empty line, and then the ALTER TABLE statements of the    *)
(* levels above 0: every statement build_sql returned is exactly one line  *)
(* of the script and every further line is one of these statements.        *)
(***************************************************************************)
C26_ScriptIsCreateBlankAlters ==
    pc = "done" =>
        LET lines == SplitLines(script)
            places == AlterPlaces(sql_expressions)
        IN /\ Len(lines) = 2 + Cardinality(places)
           /\ lines[1] = sql_expressions.create
           /\ lines[2] = <<>>
           /\ \A place \in places :
                  Cardinality({p \in 3..Len(lines) :
                      lines[p] = sql_expressions.levels[place[1]][place[2]]}) = 1
           /\ \A p \in 3..Len(lines) :
                  \E place \in places :
                      lines[p] = sql_expressions.levels[place[1]][place[2]]

\* a script of four lines: CREATE TABLE, the empty line and two ALTER TABLE
\* statements of two levels
C26_Witness ==
    /\ pc = "done"
    /\ Cardinality(DOMAIN sql_expressions.levels) = 2
    /\ Cardinality(AlterPlaces(sql_expressions)) = 2
    /\ Len(SplitLines(script)) = 4
    /\ IsAlter(SplitLines(script)[3])
    /\ IsAlter(SplitLines(script)[4])

RECURSIVE Mirrors(_, _)
\* node has the tag of ast and an sql field, and so have, position by
\* position, the operands of a binary expression and the arguments of a
\* function, which are as many as those of ast and in the same order
Mirrors(ast, node) ==
    /\ node.type = ast.type
    /\ "sql" \in DOMAIN node
    /\ CASE ast.type = "binary-expression" ->
                /\ Mirrors(ast.left, node.left)
                /\ Mirrors(ast.right, node.right)
         [] ast.type = "function" ->
                LET arguments == IF "arguments" \in DOMAIN ast THEN ast.arguments ELSE <<>>
                IN /\ Len(node.arguments) = Len(arguments)
                   /\ \A k \in DOMAIN arguments : Mirrors(arguments[k], node.arguments[k])
         [] OTHER -> TRUE

(***************************************************************************)
(* C28: the tree a translation returns has, at every position, the tag of  *)
(* the input node at that position, the arguments of a function in the     *)
(* same number and order, and an sql field on every node.                  *)
(***************************************************************************)
C28_OutputMirrorsInputWithSql ==
    pc = "returned" => Mirrors(data.ast, output)

\* the places of a CREATE TABLE statement where a column is named
CreatePlaces(statement) == {k \in 4..Len(statement) : (k - 4) % 5 = 0}

\* the places of the ALTER TABLE statements that add the column col
AltersOf(sql, col) ==
    {place \in AlterPlaces(sql) : AlterColumn(sql.levels[place[1]][place[2]]) = col}

(***************************************************************************)
(* C29: in what build_sql returns every key of cols is defined exactly     *)
(* once: named once in the CREATE TABLE statement, when its level is 0, or *)
(* added by one ALTER TABLE statement of the list of its own level, never  *)
(* both and never neither; and every column the CREATE TABLE statement     *)
(* names or an ALTER TABLE statement adds is a key of cols.                *)
(***************************************************************************)
C29_EveryColumnDefinedOnce ==
    BuildReturned =>
        LET create == sql_expressions.create
            keys == {cols[i].name : i \in DOMAIN cols}
        IN /\ \A col \in keys :
                  LET listed == {k \in CreatePlaces(create) : create[k] = col}
                      added == AltersOf(sql_expressions, col)
                  IN /\ Cardinality(listed) + Cardinality(added) = 1
                     /\ Cardinality(listed) = 1 <=> Level(col) = 0
                     /\ \A place \in added : place[1] = Level(col)
           /\ \A k \in CreatePlaces(create) : create[k] \in keys
           /\ \A place \in AlterPlaces(sql_expressions) :
                  AlterColumn(sql_expressions.levels[place[1]][place[2]]) \in keys

\* three columns: one in CREATE TABLE, one added at level 1, one at level 2
C29_Witness ==
    /\ BuildReturned
    /\ Len(cols) = 3
    /\ Cardinality(CreatePlaces(sql_expressions.create)) = 1
    /\ \E i, j \in DOMAIN cols :
           /\ Level(cols[i].name) = 1
           /\ Level(cols[j].name) = 2
           /\ AltersOf(sql_expressions, cols[i].name) = {<<1, 1>>}
           /\ AltersOf(sql_expressions, cols[j].name) = {<<2, 1>>}

\* part occurs in text as a run of consecutive pieces
Contains(text, part) ==
    \E k \in 1..(Len(text) - Len(part) + 1) : SubSeq(text, k, k + Len(part) - 1) = part

\* the references of the columns: <<c, r>> when the expression of c reads r
References ==
    UNION {{<<cols[i].name, r>> : r \in RefsOf(cols[i].node)} : i \in DOMAIN cols}

\* nothing but an errored reference could stop the build: every reference
\* names a key of cols, the references have no cycle, and no node has the
\* tag "cell-range" or lacks sql
OnlyErroredReferencesAtStake ==
    /\ \A i \in DOMAIN cols :
           /\ RefsOf(cols[i].node) \subseteq Elems(Keys(cols))
           /\ ~HasTag(cols[i].node, "cell-range")
           /\ "sql" \in DOMAIN cols[i].node
    /\ \A e \in Closure(References) : e[1] # e[2]

(***************************************************************************)
(* C30: a column is named in the CREATE TABLE statement exactly when it    *)
(* has no outgoing edge in the dependency graph.  In particular a column   *)
(* whose node is a function call or a binary expression that reads no      *)
(* column (5 + 3, or a function whose only reference is errored) gets a    *)
(* script in which it is a base column of CREATE TABLE, no ALTER TABLE     *)
(* statement adds it and its sql occurs nowhere.                           *)
(***************************************************************************)
C30_BaseColumnIffNoOutgoingEdge ==
    /\ BuildReturned =>
           \A i \in DOMAIN cols :
               cols[i].name \in CreateColumns(sql_expressions.create)
                   <=> OutEdges(graph, cols[i].name) = {}
    /\ pc \notin {"create_dependency_graph", "build_sql", "assemble"}
       /\ OnlyErroredReferencesAtStake
       => \A i \in DOMAIN cols :
              /\ cols[i].node.type \in {"function", "binary-expression"}
              /\ RefsOf(cols[i].node) = {}
              => /\ pc = "done"
                 /\ cols[i].name \in CreateColumns(SplitLines(script)[1])
                 /\ \A p \in DOMAIN SplitLines(script) :
                        IsAlter(SplitLines(script)[p]) =>
                            AlterColumn(SplitLines(script)[p]) # cols[i].name
                 /\ ~Contains(script, cols[i].node.sql)

====
